---- MODULE Spec2Model ----
(***************************************************************************)
(* QuakerCMS: locale settings (locales/models.py), the sync_locales        *)
(* management command (locales/management/commands/sync_locales.py) and    *)
(* the content they guard.                                                 *)
(*                                                                         *)
(* The persistent state is the LocaleSettings table (one row per site),    *)
(* the wagtail Locale table and the Page table.  `last` holds the outcome  *)
(* of the most recent operation (the ValidationError raised by clean(),    *)
(* the lines the command wrote), so that properties can speak about what   *)
(* an operation returned.                                                  *)
(*                                                                         *)
(* The read side is get_language_settings (locales/utils.py) and the       *)
(* navigation menu (navigation/templatetags/navigation_tags.py).  They     *)
(* read the Site table (`is_default_site`), the LocaleSettings rows and    *)
(* the page rows a menu points at (`page_tree`: identity, locale,          *)
(* translation key, live flag, title, url); `returned` holds the value     *)
(* the latest call of a read-side function returned.                       *)
(***************************************************************************)
EXTENDS FiniteSets, Integers, Sequences, TLC

\* Largest number of Page rows the content store holds in the model.
MaxPages == 2

\* Language codes used in the model: a subset of core.constants.LANGUAGE_CHOICES.
Codes == {"en", "fi", "es"}

\* Sites of the installation (wagtail Site rows) at start-up.
Sites == {"s1"}

\* The concrete page classes of the repository, and the models
\* apps.get_models() yields that carry a `locale` ForeignKey to Locale.
PageModels == {"wagtailcore.Page", "home.HomePage", "content.ContentPage"}

\* default_language values an administrator submits in the model.
DefaultChoices == {"en", "fi"}

\* available_languages lists an administrator submits in the model.
LanguageLists ==
    { <<>>, <<"en">>, <<"fi">>, <<"en", "fi">>, <<"fi", "en">>,
      <<"en", "es">>, <<"fi", "es">>, <<"en", "fi", "es">> }

VARIABLES settings, Locale, pages, last

\* is_default_site: the site whose is_default_site flag is set ("" when no
\* site has it); page_tree: the Page rows by id, as the menu reads them;
\* returned: the value the latest read-side call returned.
VARIABLES is_default_site, page_tree, returned

\* navigation_menu_setting: the NavigationMenuSetting row of the site;
\* passes: the navigation_menu calls in progress, by request; sync_run: the
\* sync_locales command in progress.
VARIABLES navigation_menu_setting, passes, sync_run

vars ==
    <<settings, Locale, pages, last, is_default_site, page_tree, returned,
      navigation_menu_setting, passes, sync_run>>

\* What operations outside navigation_menu and outside a running command
\* leave alone.
others == <<navigation_menu_setting, passes, sync_run>>

\* Absence of the NavigationMenuSetting row.
NoMenuRow == [pk |-> FALSE, menu_items |-> <<>>]

\* The requests that are being served.
Requests == {"r1", "r2"}

\* No navigation_menu call is running for the request.
Idle == [pc |-> "idle"]

\* The locale that is active while the request is served: r1 asks for a
\* Finnish page and r2 for an English one.
get_active == [r \in Requests |-> IF r = "r1" THEN "fi" ELSE "en"]

\* No navigation_menu call is running: the menu and the pages are edited
\* between page renders.
NoPassRunning == \A r \in Requests : passes[r] = Idle

\* No sync_locales command is running.
NoSyncRun ==
    [pc |-> "none", to_check |-> {}, deleting |-> "", created |-> {},
     removed |-> {}, blocked |-> <<>>]

\* Page ids of the rows the menu reads.
PageIds == 1 .. MaxPages

\* Absence of a Page row: what item.value.get("page") yields for a missing
\* or deleted page (None).
NoPage ==
    [id |-> 0, live |-> FALSE, locale |-> "", translation_key |-> 0,
     title |-> "", url |-> ""]

\* No read-side call has returned since the last write.
NoReturn == [op |-> ""]

\* What the operations on settings, locales and page counts leave alone: the
\* default-site flag and the page rows; a value returned before the write is
\* no longer the answer of a call.
WriteFrame ==
    /\ returned' = NoReturn
    /\ UNCHANGED <<is_default_site, page_tree, others>>

\* Absence of a LocaleSettings row for a site.
NoRow == [default_language |-> "", available_languages |-> <<>>, pk |-> FALSE]

Range(s) == {s[i] : i \in DOMAIN s}

RECURSIVE SumOver(_, _)
SumOver(f, S) ==
    IF S = {} THEN 0
    ELSE LET x == CHOOSE y \in S : TRUE
         IN  f[x] + SumOver(f, S \ {x})

\* dict(LANGUAGE_CHOICES).get(code, code)
display_name(code) ==
    CASE code = "en" -> "English"
      [] code = "es" -> "Spanish / Espanol"
      [] code = "fi" -> "Finnish / Suomi"
      [] OTHER -> code

(***************************************************************************)
(* Content store: pages[<<code, model>>] is the number of Page rows whose  *)
(* locale is `code` and whose concrete class is `model`.                   *)
(***************************************************************************)
PageKeys == Codes \X PageModels

TotalPages == SumOver(pages, PageKeys)

\* model.objects.filter(locale=locale).count().  A HomePage or ContentPage
\* is also a row of its multi-table parent wagtailcore.Page.
ModelCount(model, code) ==
    IF model = "wagtailcore.Page"
    THEN SumOver(pages, {<<code, m>> : m \in PageModels})
    ELSE pages[<<code, model>>]

\* Variant: the multi-table parent wagtailcore.Page is not among the models.
get_translatable_models_SubclassesOnly == PageModels \ {"wagtailcore.Page"}

\* Command.get_translatable_models: every model with a `locale` ForeignKey.
get_translatable_models == PageModels

\* Variant: counts the rows of one concrete page class only.
page_count_ContentPagesOnly(code) == pages[<<code, "content.ContentPage">>]

\* Page.objects.filter(locale=locale).count() in LocaleSettings.clean.
page_count(code) == ModelCount("wagtailcore.Page", code)

\* Command.get_locale_usage: model name -> count, only for counts > 0.
get_locale_usage(code) ==
    [m \in {m \in get_translatable_models : ModelCount(m, code) > 0}
        |-> ModelCount(m, code)]

\* sum(usage.values())
total_count(usage) == SumOver(usage, DOMAIN usage)

(***************************************************************************)
(* LocaleSettings.clean.  The result is the set of outcomes the call can   *)
(* have: Locale.objects.all() is iterated in the order the database        *)
(* returns, and the first locale found in use is the one reported.         *)
(***************************************************************************)
Passed == [error |-> "none", code |-> "", count |-> 0, name |-> ""]

Failed(kind) == [error |-> kind, code |-> "", count |-> 0, name |-> ""]

LocaleInUse(code) ==
    [error |-> "LocaleInUse", code |-> code, count |-> page_count(code),
     name |-> display_name(code)]

\* Variant: compares each locale with the first listed language only.
check_removed_locales_FirstOnly(available_languages) ==
    LET in_use == {l \in Locale :
                     l # available_languages[1] /\ page_count(l) > 0}
    IN  IF in_use = {} THEN {Passed} ELSE {LocaleInUse(l) : l \in in_use}

\* Variant: only the locales that a stored row lists and the submitted list
\* omits are looked at.
check_removed_locales_RemovedOnly(available_languages) ==
    LET current_languages == Range(available_languages)
        previous_languages ==
            UNION {Range(settings[s].available_languages) : s \in DOMAIN settings}
        in_use == {l \in Locale \cap previous_languages :
                     l \notin current_languages /\ page_count(l) > 0}
    IN  IF in_use = {} THEN {Passed} ELSE {LocaleInUse(l) : l \in in_use}

\* The loop over Locale.objects.all() in clean(): the first locale outside
\* available_languages that has pages raises.
check_removed_locales(available_languages) ==
    LET current_languages == Range(available_languages)
        in_use == {l \in Locale :
                     l \notin current_languages /\ page_count(l) > 0}
    IN  IF in_use = {} THEN {Passed} ELSE {LocaleInUse(l) : l \in in_use}

\* Variant: no check that the default language is listed.
clean_NoDefaultCheck(pk, default_language, available_languages) ==
    IF available_languages = <<>>
    THEN {Failed("EmptyLanguageSet")}
    ELSE IF pk
    THEN check_removed_locales(available_languages)
    ELSE {Passed}

\* Variant: the locale check runs for unsaved settings too.
clean_AlwaysCheck(pk, default_language, available_languages) ==
    IF available_languages = <<>>
    THEN {Failed("EmptyLanguageSet")}
    ELSE IF default_language \notin Range(available_languages)
    THEN {Failed("DefaultNotInSet")}
    ELSE check_removed_locales(available_languages)

\* Variant: the default-language check comes before the empty check.
clean_DefaultFirst(pk, default_language, available_languages) ==
    IF default_language \notin Range(available_languages)
    THEN {Failed("DefaultNotInSet")}
    ELSE IF available_languages = <<>>
    THEN {Failed("EmptyLanguageSet")}
    ELSE IF pk
    THEN check_removed_locales(available_languages)
    ELSE {Passed}

clean(pk, default_language, available_languages) ==
    IF available_languages = <<>>
    THEN {Failed("EmptyLanguageSet")}
    ELSE IF default_language \notin Range(available_languages)
    THEN {Failed("DefaultNotInSet")}
    ELSE IF pk
    THEN check_removed_locales(available_languages)
    ELSE {Passed}

(***************************************************************************)
(* LocaleSettings.save: write the row, then create the missing locales.    *)
(***************************************************************************)
\* Variant: the table is made equal to the listed languages.
LocalesAfterSave_Replace(available_languages) ==
    IF available_languages # <<>>
    THEN Range(available_languages)
    ELSE Locale

\* The Locale table after save() of a row listing available_languages.
LocalesAfterSave(available_languages) ==
    IF available_languages # <<>>
    THEN Locale \cup Range(available_languages)
    ELSE Locale

Row(default_language, available_languages) ==
    [default_language |-> default_language,
     available_languages |-> available_languages, pk |-> TRUE]

\* The outcome record of an operation on the settings of `site`.
SettingsOutcome(op, site, pk, default_language, available_languages, r, created) ==
    [op |-> op, site |-> site, pk |-> pk,
     default_language |-> default_language,
     available_languages |-> available_languages,
     error |-> r.error, code |-> r.code, count |-> r.count, name |-> r.name,
     remove_unused |-> FALSE, outcome |-> "", created |-> created,
     removed |-> {}, blocked |-> <<>>]

NoOutcome ==
    [op |-> "", site |-> "", pk |-> FALSE, default_language |-> "",
     available_languages |-> <<>>, error |-> "none", code |-> "", count |-> 0,
     name |-> "", remove_unused |-> FALSE, outcome |-> "", created |-> {},
     removed |-> {}, blocked |-> <<>>]

Init ==
    /\ settings = [s \in Sites |-> NoRow]
    /\ Locale = {"en"}
    /\ pages = [k \in PageKeys |-> 0]
    /\ last = NoOutcome
    /\ is_default_site \in Sites
    /\ page_tree = [id \in PageIds |-> NoPage]
    /\ returned = NoReturn
    /\ navigation_menu_setting = NoMenuRow
    /\ passes = [r \in Requests |-> Idle]
    /\ sync_run = NoSyncRun

\* instance.save() called directly (LocaleSettings.objects.create(...), or
\* a loaded row edited and saved): save() does not call clean().
Save(site, default_language, available_languages) ==
    /\ settings' = [settings EXCEPT
                      ![site] = Row(default_language, available_languages)]
    /\ Locale' = LocalesAfterSave(available_languages)
    /\ last' = SettingsOutcome("save", site, settings[site].pk,
                               default_language, available_languages, Passed,
                               LocalesAfterSave(available_languages) \ Locale)
    /\ UNCHANGED pages
    /\ WriteFrame

\* LocaleSettings.objects.all().delete() for one site: the row is removed.
DeleteSettings(site) ==
    /\ settings[site].pk
    /\ settings' = [settings EXCEPT ![site] = NoRow]
    /\ last' = NoOutcome
    /\ UNCHANGED <<Locale, pages>>
    /\ WriteFrame

\* Variant: the row is saved whatever clean() raised.
Accepts_Always(r) == TRUE

\* Whether the save goes ahead after clean(): it raised no ValidationError.
Accepts(r) == r.error = "none"

\* The administrator's save: clean() validates the submitted instance, and
\* save() runs only when clean() raised nothing.
ValidatedSave(site, default_language, available_languages) ==
    \E r \in clean(settings[site].pk, default_language, available_languages) :
        /\ IF Accepts(r)
           THEN /\ settings' = [settings EXCEPT
                      ![site] = Row(default_language, available_languages)]
                /\ Locale' = LocalesAfterSave(available_languages)
           ELSE UNCHANGED <<settings, Locale>>
        /\ last' = SettingsOutcome("validated_save", site, settings[site].pk,
                       default_language, available_languages, r,
                       IF Accepts(r)
                       THEN LocalesAfterSave(available_languages) \ Locale
                       ELSE {})
        /\ UNCHANGED pages
        /\ WriteFrame

(***************************************************************************)
(* sync_locales: Command.handle.                                           *)
(***************************************************************************)
\* The sites that have a LocaleSettings row: LocaleSettings.objects.all().
locale_settings == {s \in DOMAIN settings : settings[s].pk}

\* Variant: the languages of one row only.
desired_languages_OneSite ==
    IF locale_settings = {}
    THEN {}
    ELSE Range(settings[CHOOSE s \in locale_settings : TRUE].available_languages)

\* The union of available_languages over all LocaleSettings rows.
desired_languages ==
    UNION {Range(settings[s].available_languages) : s \in locale_settings}

\* Variant: every desired code is created, present or not.
MissingLocales_All(desired, existing_locales) == desired

\* The codes the create step adds: desired codes missing from the table.
MissingLocales(desired, existing_locales) == desired \ existing_locales

\* Variant: the membership test is inverted.
RemovalCandidates_Inverted(desired, existing_locales) ==
    existing_locales \cap desired

\* The existing locales the removal step looks at: those not desired.
RemovalCandidates(desired, existing_locales) == existing_locales \ desired

\* Variant: the usage is not consulted.
SafeToDelete_Always(code) == TRUE

\* Whether the removal step may delete the locale: its usage dict is empty.
SafeToDelete(code) == DOMAIN get_locale_usage(code) = {}

SyncOutcome(remove_unused, outcome, created, removed, blocked) ==
    [NoOutcome EXCEPT !.op = "sync_locales", !.remove_unused = remove_unused,
                      !.outcome = outcome, !.created = created,
                      !.removed = removed, !.blocked = blocked]

SyncLocales(remove_unused) ==
    /\ UNCHANGED <<settings, pages>>
    /\ WriteFrame
    /\ IF locale_settings = {}
       THEN /\ last' = SyncOutcome(remove_unused, "no_settings", {}, {}, <<>>)
            /\ UNCHANGED Locale
       ELSE IF desired_languages = {}
       THEN /\ last' = SyncOutcome(remove_unused, "no_languages", {}, {}, <<>>)
            /\ UNCHANGED Locale
       ELSE LET existing_locales == Locale
                created == MissingLocales(desired_languages, existing_locales)
                candidates ==
                    IF remove_unused
                    THEN RemovalCandidates(desired_languages, existing_locales)
                    ELSE {}
                removed == {l \in candidates : SafeToDelete(l)}
                blocked == [l \in candidates \ removed |->
                              [total_count |-> total_count(get_locale_usage(l)),
                               usage |-> get_locale_usage(l)]]
            IN  /\ Locale' = (existing_locales \cup created) \ removed
                /\ last' = SyncOutcome(remove_unused, "synced", created,
                                       removed, blocked)

(***************************************************************************)
(* Content: pages are created in a locale of the Locale table (the locale  *)
(* ForeignKey) and deleted again.                                          *)
(***************************************************************************)
AddPage(code, model) ==
    /\ code \in Locale
    /\ TotalPages < MaxPages
    /\ pages' = [pages EXCEPT ![<<code, model>>] = @ + 1]
    /\ last' = NoOutcome
    /\ UNCHANGED <<settings, Locale>>
    /\ WriteFrame

DeletePage(code, model) ==
    /\ pages[<<code, model>>] > 0
    /\ pages' = [pages EXCEPT ![<<code, model>>] = @ - 1]
    /\ last' = NoOutcome
    /\ UNCHANGED <<settings, Locale>>
    /\ WriteFrame

(***************************************************************************)
(* Locale rows are also created and deleted directly (the wagtail locale   *)
(* admin, Locale.objects.create / .delete); the locale ForeignKey protects *)
(* a locale that content references.                                       *)
(***************************************************************************)
CreateLocale(code) ==
    /\ code \notin Locale
    /\ Locale' = Locale \cup {code}
    /\ last' = NoOutcome
    /\ UNCHANGED <<settings, pages>>
    /\ WriteFrame

DeleteLocale(code) ==
    /\ code \in Locale
    /\ page_count(code) = 0
    /\ Locale' = Locale \ {code}
    /\ last' = NoOutcome
    /\ UNCHANGED <<settings, pages>>
    /\ WriteFrame

Next ==
    \/ \E site \in DOMAIN settings, d \in DefaultChoices, a \in LanguageLists :
           Save(site, d, a)
    \/ \E site \in DOMAIN settings, d \in DefaultChoices, a \in LanguageLists :
           ValidatedSave(site, d, a)
    \/ \E site \in DOMAIN settings : DeleteSettings(site)
    \/ \E remove_unused \in BOOLEAN : SyncLocales(remove_unused)
    \/ \E code \in Codes, model \in PageModels : AddPage(code, model)
    \/ \E code \in Codes, model \in PageModels : DeletePage(code, model)
    \/ \E code \in Codes : CreateLocale(code)
    \/ \E code \in Codes : DeleteLocale(code)

Spec == Init /\ [][Next]_vars

(***************************************************************************)
(* sync_locales --remove-unused step by step.  The command runs in its own *)
(* process with no transaction and no lock, so other processes create and  *)
(* delete content between its queries.                                     *)
(***************************************************************************)
\* What a page operation of another process leaves alone.
ContentFrame ==
    UNCHANGED <<settings, Locale, last, is_default_site, page_tree, returned,
                others>>

\* A page is created in a locale of the table while the command runs or not.
CreateContent(code, model) ==
    /\ code \in Locale
    /\ TotalPages < MaxPages
    /\ pages' = [pages EXCEPT ![<<code, model>>] = @ + 1]
    /\ ContentFrame

\* A page is deleted.
DeleteContent(code, model) ==
    /\ pages[<<code, model>>] > 0
    /\ pages' = [pages EXCEPT ![<<code, model>>] = @ - 1]
    /\ ContentFrame

\* What a step of the command leaves alone.
SyncFrame ==
    UNCHANGED <<settings, pages, is_default_site, page_tree, returned,
                navigation_menu_setting, passes>>

\* Lines 67-114: the command reads the settings and the locales, creates the
\* missing locales and keeps the locales it read for the removal loop.
SyncStart ==
    /\ sync_run = NoSyncRun
    /\ SyncFrame
    /\ IF locale_settings = {}
       THEN /\ last' = SyncOutcome(TRUE, "no_settings", {}, {}, <<>>)
            /\ UNCHANGED <<Locale, sync_run>>
       ELSE IF desired_languages = {}
       THEN /\ last' = SyncOutcome(TRUE, "no_languages", {}, {}, <<>>)
            /\ UNCHANGED <<Locale, sync_run>>
       ELSE LET existing_locales == Locale
                created == MissingLocales(desired_languages, existing_locales)
            IN  /\ Locale' = existing_locales \cup created
                /\ last' = NoOutcome
                /\ sync_run' =
                       [NoSyncRun EXCEPT
                           !.pc = "loop",
                           !.created = created,
                           !.to_check = RemovalCandidates(desired_languages,
                                                          existing_locales)]

\* Lines 116-136: the loop reaches a locale that is not desired and reads its
\* usage; a locale in use is reported, an unused one is about to be deleted.
SyncCheckUsage(code) ==
    /\ sync_run.pc = "loop"
    /\ code \in sync_run.to_check
    /\ SyncFrame
    /\ UNCHANGED <<Locale, last>>
    /\ IF SafeToDelete(code)
       THEN sync_run' = [sync_run EXCEPT !.pc = "delete", !.deleting = code]
       ELSE sync_run' =
                [sync_run EXCEPT
                    !.to_check = @ \ {code},
                    !.blocked =
                        [l \in DOMAIN @ \cup {code} |->
                            IF l = code
                            THEN [total_count |->
                                      total_count(get_locale_usage(code)),
                                  usage |-> get_locale_usage(code)]
                            ELSE @[l]]]

\* Lines 139-145: locale.delete().  The locale ForeignKey of the pages is
\* protected: with a page in the locale the delete raises ProtectedError,
\* which handle does not catch, and the command ends there.
SyncDelete ==
    /\ sync_run.pc = "delete"
    /\ SyncFrame
    /\ IF page_count(sync_run.deleting) > 0
       THEN /\ last' = [SyncOutcome(TRUE, "ProtectedError", sync_run.created,
                                    sync_run.removed, sync_run.blocked)
                           EXCEPT !.code = sync_run.deleting]
            /\ sync_run' = NoSyncRun
            /\ UNCHANGED Locale
       ELSE /\ Locale' = Locale \ {sync_run.deleting}
            /\ sync_run' = [sync_run EXCEPT
                               !.pc = "loop",
                               !.deleting = "",
                               !.to_check = @ \ {sync_run.deleting},
                               !.removed = @ \cup {sync_run.deleting}]
            /\ UNCHANGED last

\* Lines 147-154: the loop is over and the command reports.
SyncComplete ==
    /\ sync_run.pc = "loop"
    /\ sync_run.to_check = {}
    /\ SyncFrame
    /\ last' = SyncOutcome(TRUE, "synced", sync_run.created, sync_run.removed,
                           sync_run.blocked)
    /\ sync_run' = NoSyncRun
    /\ UNCHANGED Locale

NextRace ==
    \/ \E site \in DOMAIN settings, d \in DefaultChoices, a \in LanguageLists :
           sync_run = NoSyncRun /\ Save(site, d, a)
    \/ \E code \in Codes, model \in PageModels : CreateContent(code, model)
    \/ \E code \in Codes, model \in PageModels : DeleteContent(code, model)
    \/ SyncStart
    \/ \E code \in Codes : SyncCheckUsage(code)
    \/ SyncDelete
    \/ SyncComplete

SpecRace == Init /\ [][NextRace]_vars

(***************************************************************************)
(* get_language_settings (locales/utils.py): the language settings the     *)
(* Django settings module loads at start-up.                               *)
(***************************************************************************)
\* core.constants: the static defaults.
DEFAULT_LANGUAGE_CODE == "en-us"

DEFAULT_LANGUAGES == << <<"en", "English">> >>

\* The Site rows an installation can hold in the model, and their primary
\* keys: Site.objects.first() takes the row with the smallest one.
LookupSites == {"s1", "s2"}

SitePk(site) == IF site = "s1" THEN 1 ELSE 2

\* available_languages lists saved in the runs that exercise the lookup.
LookupLists == { <<>>, <<"fi">>, <<"en", "fi">> }

\* The variant without the `if code` filter.
get_available_languages_list_Unfiltered(available_languages) ==
    [i \in 1 .. Len(available_languages) |->
        <<available_languages[i], display_name(available_languages[i])>>]

\* LocaleSettings.get_available_languages_list: (code, name) for every
\* truthy code of the list, [] for an empty list.
get_available_languages_list(available_languages) ==
    IF available_languages = <<>>
    THEN <<>>
    ELSE LET codes == SelectSeq(available_languages, LAMBDA code : code # "")
         IN  [i \in 1 .. Len(codes) |-> <<codes[i], display_name(codes[i])>>]

\* Site.objects.first(): "" stands for None.
first_site ==
    IF DOMAIN settings = {}
    THEN ""
    ELSE CHOOSE s \in DOMAIN settings :
             \A t \in DOMAIN settings : SitePk(s) <= SitePk(t)

\* Variant: the is_default_site flag is not consulted.
selected_site_FirstOnly == first_site

\* The site the lookup reads: the default site, else any (the first) site.
selected_site ==
    IF is_default_site \in DOMAIN settings THEN is_default_site ELSE first_site

\* The tuple get_language_settings returns.  `failed`: a storage access
\* inside the try block raised (tables missing, database not ready).
get_language_settings(failed) ==
    IF failed
    THEN <<DEFAULT_LANGUAGE_CODE, DEFAULT_LANGUAGES>>
    ELSE LET site == selected_site
         IN  IF site # "" /\ settings[site].pk
             THEN <<settings[site].default_language,
                    get_available_languages_list(
                        settings[site].available_languages)>>
             ELSE <<DEFAULT_LANGUAGE_CODE, DEFAULT_LANGUAGES>>

\* A call of get_language_settings: it reads and returns, nothing is written.
GetLanguageSettings(failed) ==
    /\ returned' = [op |-> "get_language_settings", failed |-> failed,
                    value |-> get_language_settings(failed)]
    /\ UNCHANGED <<settings, Locale, pages, last, is_default_site, page_tree, others>>

\* site.is_default_site = ...; site.save(): the flag moves to a site, or is
\* cleared ("").
SetDefaultSite(site) ==
    /\ site # is_default_site
    /\ is_default_site' = site
    /\ returned' = NoReturn
    /\ UNCHANGED <<settings, Locale, pages, last, page_tree, others>>

\* An installation with no, one or two sites, none of them with settings.
InitLookup ==
    /\ \E S \in SUBSET LookupSites :
           /\ settings = [s \in S |-> NoRow]
           /\ is_default_site \in S \cup {""}
    /\ Locale = {"en"}
    /\ pages = [k \in PageKeys |-> 0]
    /\ last = NoOutcome
    /\ page_tree = [id \in PageIds |-> NoPage]
    /\ returned = NoReturn
    /\ navigation_menu_setting = NoMenuRow
    /\ passes = [r \in Requests |-> Idle]
    /\ sync_run = NoSyncRun

NextLookup ==
    \/ \E site \in DOMAIN settings, d \in DefaultChoices, a \in LookupLists :
           Save(site, d, a)
    \/ \E site \in DOMAIN settings : DeleteSettings(site)
    \/ \E site \in DOMAIN settings \cup {""} : SetDefaultSite(site)
    \/ \E failed \in BOOLEAN : GetLanguageSettings(failed)

SpecLookup == InitLookup /\ [][NextLookup]_vars

(***************************************************************************)
(* get_available_languages_list on the lists the JSON field can hold: the  *)
(* field stores any list of strings, the choices are checked by the admin  *)
(* form only.                                                              *)
(***************************************************************************)
MaxLanguages == 3

\* Codes a stored list can hold: codes of LANGUAGE_CHOICES, a code that is
\* not among them, and the empty string.
StoredCodes == {"en", "fi", "xx", ""}

StoredLists == UNION {[1 .. n -> StoredCodes] : n \in 0 .. MaxLanguages}

\* settings.get_available_languages_list() on the row of the site.
GetAvailableLanguagesList(site) ==
    /\ settings[site].pk
    /\ returned' = [op |-> "get_available_languages_list", site |-> site,
                    value |-> get_available_languages_list(
                                  settings[site].available_languages)]
    /\ UNCHANGED <<settings, Locale, pages, last, is_default_site, page_tree, others>>

NextLanguages ==
    \/ \E site \in DOMAIN settings, a \in StoredLists : Save(site, "en", a)
    \/ \E site \in DOMAIN settings : GetAvailableLanguagesList(site)

SpecLanguages == Init /\ [][NextLanguages]_vars

(***************************************************************************)
(* sync_locales on an installation with several sites, each with          *)
(* LocaleSettings of its own or with none.                                 *)
(***************************************************************************)
\* available_languages lists saved for the sites of such an installation.
SiteLists == { <<>>, <<"en">>, <<"fi">>, <<"en", "es">> }

NextSites ==
    \/ \E site \in DOMAIN settings, a \in SiteLists : Save(site, "en", a)
    \/ \E site \in DOMAIN settings : DeleteSettings(site)
    \/ \E remove_unused \in BOOLEAN : SyncLocales(remove_unused)
    \/ \E code \in Codes, model \in PageModels : AddPage(code, model)
    \/ \E code \in Codes, model \in PageModels : DeletePage(code, model)
    \/ \E code \in Codes : CreateLocale(code)

SpecSites == InitLookup /\ [][NextSites]_vars

(***************************************************************************)
(* Navigation menu (navigation/templatetags/navigation_tags.py).  A menu   *)
(* item is a StreamField block: its `type` is the block_type, the other    *)
(* fields are item.value.  A page_link stores the id of its page;          *)
(* item.value.get("page") is the Page row with that id, or None.           *)
(***************************************************************************)
\* Largest number of children of a dropdown given to process_menu_item.
MaxDropdownItems == 2

\* Page.title and Page.url of the row with the id: every page has its own.
PageTitle(id) ==
    CASE id = 1 -> "Title of page 1"
      [] id = 2 -> "Title of page 2"
      [] id = 3 -> "Title of page 3"
      [] OTHER -> "Title of a page"

PageUrl(id) ==
    CASE id = 1 -> "/page-1/"
      [] id = 2 -> "/page-2/"
      [] id = 3 -> "/page-3/"
      [] OTHER -> "/page/"

\* The Page rows that exist.
ExistingPageIds == {id \in PageIds : page_tree[id] # NoPage}

\* The id a new Page row gets.
next_id ==
    IF ExistingPageIds = {}
    THEN 1
    ELSE 1 + CHOOSE id \in ExistingPageIds : \A other \in ExistingPageIds : other <= id

\* pages, recounted from the rows: the pages of the menu tests are
\* ContentPage rows.
PageCounts(tree) ==
    [k \in PageKeys |->
        IF k[2] = "content.ContentPage"
        THEN Cardinality({id \in PageIds : tree[id].locale = k[1]})
        ELSE 0]

\* A page operation runs between two calls of the read side, and leaves
\* the settings, the locales and the sites alone.
PageFrame ==
    /\ returned = NoReturn
    /\ NoPassRunning
    /\ last' = NoOutcome
    /\ UNCHANGED <<settings, Locale, is_default_site, returned, others>>

\* parent.add_child(instance=ContentPage(locale=..., live=...)): a new page
\* with a translation key of its own.
add_child(locale, live) ==
    /\ PageFrame
    /\ locale \in Locale
    /\ next_id \in PageIds
    /\ page_tree' = [page_tree EXCEPT ![next_id] =
                        [id |-> next_id, live |-> live, locale |-> locale,
                         translation_key |-> next_id,
                         title |-> PageTitle(next_id),
                         url |-> PageUrl(next_id)]]
    /\ pages' = PageCounts(page_tree')

\* page.copy_for_translation(locale): a draft copy in the locale with the
\* translation key of the page; one translation per locale.
copy_for_translation(id, locale) ==
    /\ PageFrame
    /\ id \in ExistingPageIds
    /\ locale \in Locale
    /\ next_id \in PageIds
    /\ \A other \in ExistingPageIds :
           page_tree[other].translation_key = page_tree[id].translation_key
               => page_tree[other].locale # locale
    /\ page_tree' = [page_tree EXCEPT ![next_id] =
                        [id |-> next_id, live |-> FALSE, locale |-> locale,
                         translation_key |-> page_tree[id].translation_key,
                         title |-> PageTitle(next_id),
                         url |-> PageUrl(next_id)]]
    /\ pages' = PageCounts(page_tree')

\* page.save_revision().publish()
publish(id) ==
    /\ PageFrame
    /\ id \in ExistingPageIds
    /\ ~page_tree[id].live
    /\ page_tree' = [page_tree EXCEPT ![id].live = TRUE]
    /\ UNCHANGED pages

\* page.unpublish()
unpublish(id) ==
    /\ PageFrame
    /\ id \in ExistingPageIds
    /\ page_tree[id].live
    /\ page_tree' = [page_tree EXCEPT ![id].live = FALSE]
    /\ UNCHANGED pages

\* page.delete(): menu items that store the id keep it.
delete(id) ==
    /\ PageFrame
    /\ id \in ExistingPageIds
    /\ page_tree' = [page_tree EXCEPT ![id] = NoPage]
    /\ pages' = PageCounts(page_tree')

\* The blocks of navigation/blocks.py.
PageLinkBlock(page, custom_title, anchor) ==
    [type |-> "page_link", page |-> page, custom_title |-> custom_title,
     anchor |-> anchor]

ExternalLinkBlock(url, title, anchor) ==
    [type |-> "external_link", url |-> url, title |-> title, anchor |-> anchor]

DropdownMenuBlock(title, items) ==
    [type |-> "dropdown", title |-> title, items |-> items]

\* The return value None.
None == [type |-> "None"]

\* page.get_translation(locale): the rows with the page's translation key in
\* the locale; the empty set stands for Page.DoesNotExist.  The live flag of
\* the row is not consulted.
get_translation(page, locale) ==
    {page_tree[id] : id \in
        {id \in ExistingPageIds :
            /\ page_tree[id].translation_key = page.translation_key
            /\ page_tree[id].locale = locale}}

\* Variant: the translation in the default locale is tried first.
localized_page_DefaultFirst(page, current_locale, default_locale) ==
    IF get_translation(page, default_locale) # {}
    THEN CHOOSE t \in get_translation(page, default_locale) : TRUE
    ELSE IF get_translation(page, current_locale) # {}
    THEN CHOOSE t \in get_translation(page, current_locale) : TRUE
    ELSE page

\* The try/except chain of process_menu_item: the translation in the current
\* locale, else the one in the default locale, else the page itself.
localized_page(page, current_locale, default_locale) ==
    IF get_translation(page, current_locale) # {}
    THEN CHOOSE t \in get_translation(page, current_locale) : TRUE
    ELSE IF get_translation(page, default_locale) # {}
    THEN CHOOSE t \in get_translation(page, default_locale) : TRUE
    ELSE page

\* Variant: a page that is not live is linked like any other.
target_usable_IgnoresLive(page) == page # NoPage

\* `not page or not page.live` negated: the link has a page and it is live.
target_usable(page) == page # NoPage /\ page.live

\* Variant: the anchor is dropped.
with_anchor_Dropped(url, anchor) == url

\* url, with "#anchor" appended when the anchor is not empty.
with_anchor(url, anchor) == IF anchor # "" THEN url \o "#" \o anchor ELSE url

\* Variant: the title of the page always.
link_title_PageOnly(custom_title, page) == page.title

\* item.value.get("custom_title") or localized_page.title
link_title(custom_title, page) ==
    IF custom_title # "" THEN custom_title ELSE page.title

\* Variant: any translation of the current page counts as the current page.
is_current_AnyTranslation(current_page, page) ==
    IF current_page = NoPage THEN "None"
    ELSE IF current_page.translation_key = page.translation_key
    THEN "True" ELSE "False"

\* current_page and current_page.id == localized_page.id: None when no
\* current page is given, else the comparison of the ids.
is_current(current_page, page) ==
    IF current_page = NoPage THEN "None"
    ELSE IF current_page.id = page.id THEN "True" ELSE "False"

\* processed_child.get("is_current"), as a truth value.
child_is_current(processed_child) ==
    /\ "is_current" \in DOMAIN processed_child
    /\ processed_child.is_current = "True"

\* Variant: every processed child is kept, None or not.
kept_children_All(processed) == processed

\* The children appended to child_items: the truthy results, in order.
kept_children(processed) == SelectSeq(processed, LAMBDA child : child # None)

\* Variant: has_current is left False.
has_current_Never(child_items) == FALSE

\* has_current after the loop: some appended child is current.
has_current(child_items) ==
    \E i \in 1 .. Len(child_items) : child_is_current(child_items[i])

\* Variant: "#" and the anchor are appended whether the anchor is empty or not.
external_link_AlwaysHash(item) ==
    [type |-> "external_link",
     url |-> item.url \o "#" \o item.anchor,
     title |-> item.title,
     is_current |-> "False"]

\* The external_link branch: no page, no locale and no current page is read.
external_link(item) ==
    [type |-> "external_link",
     url |-> with_anchor(item.url, item.anchor),
     title |-> item.title,
     is_current |-> "False"]

\* process_menu_item(item, current_locale, default_locale, current_page,
\* pages_cache); pages_cache maps page ids to prefetched rows (<<>> for None).
RECURSIVE process_menu_item(_, _, _, _, _)
process_menu_item(item, current_locale, default_locale, current_page, pages_cache) ==
    CASE item.type = "page_link" ->
            IF ~target_usable(page_tree[item.page])
            THEN None
            ELSE LET page ==
                         IF item.page \in DOMAIN pages_cache
                         THEN pages_cache[item.page]
                         ELSE page_tree[item.page]
                     localized ==
                         localized_page(page, current_locale, default_locale)
                 IN  [type |-> "page_link",
                      page |-> localized,
                      url |-> with_anchor(localized.url, item.anchor),
                      title |-> link_title(item.custom_title, localized),
                      is_current |-> is_current(current_page, localized)]
      [] item.type = "external_link" -> external_link(item)
      [] item.type = "dropdown" ->
            LET processed ==
                    [i \in 1 .. Len(item.items) |->
                        process_menu_item(item.items[i], current_locale,
                                          default_locale, current_page,
                                          pages_cache)]
                child_items == kept_children(processed)
            IN  IF child_items # <<>>
                THEN [type |-> "dropdown",
                      title |-> item.title,
                      items |-> child_items,
                      is_open |-> has_current(child_items)]
                ELSE None
      [] OTHER -> None

\* Menu items given to process_menu_item in the model.
PageLinks ==
    {PageLinkBlock(id, "", "") : id \in PageIds}
        \cup {PageLinkBlock(id, "Custom Title", "top") : id \in PageIds}

ExternalLinks ==
    {ExternalLinkBlock("https://example.com", "Example Site", anchor) :
        anchor \in {"", "section"}}

\* MenuItemBlock: the children a dropdown can hold.
MenuItems ==
    {PageLinkBlock(id, "", "") : id \in PageIds}
        \cup {ExternalLinkBlock("https://example.com", "Example Site", "")}

\* Dropdowns of at most MaxDropdownItems children, each listed once.
Dropdowns ==
    {DropdownMenuBlock("Resources", items) :
        items \in {c \in UNION {[1 .. n -> MenuItems] :
                                   n \in 0 .. MaxDropdownItems} :
                      \A i, j \in DOMAIN c : c[i] = c[j] => i = j}}

\* TopLevelMenuBlock: the items of a menu.
TopLevelItems == PageLinks \cup ExternalLinks \cup Dropdowns

\* Locale.get_default(): the locale of LANGUAGE_CODE.
DefaultLocales == {"en"}

\* A call of process_menu_item without a cache, as the tests make it; the
\* current page is None (NoPage) or a page that exists.
ProcessMenuItem(item, current_locale, default_locale, current_page) ==
    /\ returned = NoReturn
    /\ current_locale \in Locale
    /\ default_locale \in Locale
    /\ returned' = [op |-> "process_menu_item", item |-> item,
                    current_locale |-> current_locale,
                    default_locale |-> default_locale,
                    current_page |-> current_page,
                    value |-> process_menu_item(item, current_locale,
                                                default_locale, current_page,
                                                <<>>)]
    /\ UNCHANGED <<settings, Locale, pages, last, is_default_site, page_tree, others>>

\* The caller is done with the returned value.
Discard ==
    /\ returned # NoReturn
    /\ returned' = NoReturn
    /\ UNCHANGED <<settings, Locale, pages, last, is_default_site, page_tree, others>>

\* A site whose three locales exist and that has no page yet.
InitNavigation ==
    /\ settings = [s \in Sites |-> NoRow]
    /\ Locale = Codes
    /\ pages = [k \in PageKeys |-> 0]
    /\ last = NoOutcome
    /\ is_default_site \in Sites
    /\ page_tree = [id \in PageIds |-> NoPage]
    /\ returned = NoReturn
    /\ navigation_menu_setting = NoMenuRow
    /\ passes = [r \in Requests |-> Idle]
    /\ sync_run = NoSyncRun

NextNavigation ==
    \/ \E locale \in Codes, live \in BOOLEAN : add_child(locale, live)
    \/ \E id \in PageIds, locale \in Codes : copy_for_translation(id, locale)
    \/ \E id \in PageIds : publish(id)
    \/ \E id \in PageIds : unpublish(id)
    \/ \E id \in PageIds : delete(id)
    \/ \E item \in TopLevelItems, current_locale \in Codes,
          default_locale \in DefaultLocales,
          current_page \in {NoPage} \cup {page_tree[id] : id \in ExistingPageIds} :
           ProcessMenuItem(item, current_locale, default_locale, current_page)
    \/ Discard

SpecNavigation == InitNavigation /\ [][NextNavigation]_vars

(***************************************************************************)
(* navigation_menu: the template tag, and the NavigationMenuSetting row it *)
(* reads (navigation/models.py, navigation/blocks.py).                     *)
(***************************************************************************)
\* Largest number of top-level items of a stored menu in the model.
MaxMenuItems == 2

\* Variant: MenuItemBlock declares a dropdown child as well.
MenuItemBlock_WithDropdown == {"page_link", "external_link", "dropdown"}

\* The child blocks MenuItemBlock declares: the children of a dropdown.
MenuItemBlock == {"page_link", "external_link"}

\* The child blocks TopLevelMenuBlock declares.
TopLevelMenuBlock == {"page_link", "external_link", "dropdown"}

\* StreamBlock.to_python for a stream with the declared child blocks: a raw
\* block of an undeclared type is not part of the value.
stream_value(raw, child_blocks) ==
    SelectSeq(raw, LAMBDA block : block.type \in child_blocks)

\* The menu_items value of a raw menu: top-level blocks by TopLevelMenuBlock,
\* the items of a dropdown by MenuItemBlock.
to_python(raw) ==
    LET top == stream_value(raw, TopLevelMenuBlock)
    IN  [i \in 1 .. Len(top) |->
            IF top[i].type = "dropdown"
            THEN [top[i] EXCEPT !.items = stream_value(@, MenuItemBlock)]
            ELSE top[i]]

\* Raw top-level blocks submitted for a menu: a page link, a dropdown of two
\* page links, an external link, and a dropdown that holds a dropdown.
RawItems ==
    { PageLinkBlock(1, "Custom Title", "top"),
      DropdownMenuBlock("Resources",
          <<PageLinkBlock(2, "", ""), PageLinkBlock(1, "", "")>>),
      ExternalLinkBlock("https://example.com", "Example Site", "section"),
      DropdownMenuBlock("Nested",
          <<DropdownMenuBlock("Inner", <<PageLinkBlock(2, "", "")>>),
            PageLinkBlock(2, "", "")>>) }

\* Raw menus of at most MaxMenuItems blocks, each listed once.
RawMenus ==
    {m \in UNION {[1 .. n -> RawItems] : n \in 0 .. MaxMenuItems} :
        \A i, j \in DOMAIN m : m[i] = m[j] => i = j}

\* NavigationMenuSetting.objects.create(site=..., menu_items=raw), or the
\* row edited and saved.
SaveMenu(raw) ==
    /\ returned = NoReturn
    /\ NoPassRunning
    /\ navigation_menu_setting' = [pk |-> TRUE, menu_items |-> to_python(raw)]
    /\ UNCHANGED <<settings, Locale, pages, last, is_default_site, page_tree,
                   returned, passes, sync_run>>

\* NavigationMenuSetting.objects.filter(site=self.site).delete()
DeleteMenu ==
    /\ returned = NoReturn
    /\ NoPassRunning
    /\ navigation_menu_setting.pk
    /\ navigation_menu_setting' = NoMenuRow
    /\ UNCHANGED <<settings, Locale, pages, last, is_default_site, page_tree,
                   returned, passes, sync_run>>

\* The variant that reads the row and never creates one.
for_request_Get(row) == row

\* NavigationMenuSetting.for_request(request): the row of the request's site;
\* BaseSiteSetting gets or creates it, a created row has an empty menu.
for_request(row) == IF row.pk THEN row ELSE [pk |-> TRUE, menu_items |-> <<>>]

\* _collect_page_ids: the ids of the pages the item links, for a page link
\* whose page exists, and for the children of a dropdown.
RECURSIVE _collect_page_ids(_)
_collect_page_ids(item) ==
    CASE item.type = "page_link" ->
            IF page_tree[item.page] # NoPage THEN {item.page} ELSE {}
      [] item.type = "dropdown" ->
            UNION {_collect_page_ids(item.items[i]) : i \in DOMAIN item.items}
      [] OTHER -> {}

\* Variant: every prefetched row is cached under the id of the first one.
pages_cache_FirstKey(menu_items) ==
    LET page_ids == UNION {_collect_page_ids(menu_items[i]) :
                              i \in DOMAIN menu_items}
    IN  [id \in page_ids |->
            page_tree[CHOOSE first \in page_ids :
                          \A other \in page_ids : first <= other]]

\* pages_cache: Page.objects.filter(id__in=page_ids), by id.
pages_cache(menu_items) ==
    LET page_ids == UNION {_collect_page_ids(menu_items[i]) :
                              i \in DOMAIN menu_items}
    IN  [id \in page_ids \cap ExistingPageIds |-> page_tree[id]]

\* Variant: the processed items are appended at the front.
processed_items_Reversed(menu_items, current_locale, default_locale, current_page, cache) ==
    LET processed ==
            [i \in 1 .. Len(menu_items) |->
                process_menu_item(menu_items[Len(menu_items) + 1 - i],
                                  current_locale, default_locale,
                                  current_page, cache)]
    IN  SelectSeq(processed, LAMBDA processed_item : processed_item # None)

\* The loop over menu_settings.menu_items: the truthy results, in order.
processed_items(menu_items, current_locale, default_locale, current_page, cache) ==
    LET processed ==
            [i \in 1 .. Len(menu_items) |->
                process_menu_item(menu_items[i], current_locale,
                                  default_locale, current_page, cache)]
    IN  SelectSeq(processed, LAMBDA processed_item : processed_item # None)

\* The context navigation_menu returns for the row for_request gave it.
navigation_menu(menu_settings, current_locale, default_locale, current_page) ==
    IF menu_settings.menu_items = <<>>
    THEN [menu_items |-> <<>>]
    ELSE [menu_items |->
              processed_items(menu_settings.menu_items, current_locale,
                              default_locale, current_page,
                              pages_cache(menu_settings.menu_items)),
          current_page |-> current_page]

\* One rendering of {% navigation_menu %}, start to end.
NavigationMenu(current_locale, default_locale, current_page) ==
    /\ returned = NoReturn
    /\ current_locale \in Locale
    /\ default_locale \in Locale
    /\ navigation_menu_setting' = for_request(navigation_menu_setting)
    /\ returned' = [op |-> "navigation_menu",
                    had_row |-> navigation_menu_setting.pk,
                    current_locale |-> current_locale,
                    default_locale |-> default_locale,
                    current_page |-> current_page,
                    value |-> navigation_menu(
                                  for_request(navigation_menu_setting),
                                  current_locale, default_locale,
                                  current_page)]
    /\ UNCHANGED <<settings, Locale, pages, last, is_default_site, page_tree,
                   passes, sync_run>>

NextMenu ==
    \/ \E locale \in Codes, live \in BOOLEAN : add_child(locale, live)
    \/ \E id \in PageIds, locale \in Codes : copy_for_translation(id, locale)
    \/ \E id \in PageIds : publish(id)
    \/ \E id \in PageIds : unpublish(id)
    \/ \E id \in PageIds : delete(id)
    \/ \E raw \in RawMenus : SaveMenu(raw)
    \/ DeleteMenu
    \/ \E current_locale \in Codes, default_locale \in DefaultLocales,
          current_page \in {NoPage} \cup {page_tree[id] : id \in PageIds} :
           NavigationMenu(current_locale, default_locale, current_page)
    \/ Discard

SpecMenu == InitNavigation /\ [][NextMenu]_vars

(***************************************************************************)
(* DropdownMenuBlock.clean: the validation of one dropdown value when a    *)
(* menu is edited.                                                         *)
(***************************************************************************)
\* The message of the ValidationError that DropdownMenuBlock.clean raises.
EmptyDropdown == "Dropdown menu must contain at least one item"

\* A child block passes its own StructBlock.clean when its required fields
\* are filled: page for a page link, url and title for an external link.
child_valid(item) ==
    IF item.type = "page_link" THEN item.page # 0
    ELSE item.url # "" /\ item.title # ""

\* super().clean(value): the names of the dropdown's fields that fail.  The
\* title is required; items is a required stream whose every child must be
\* valid.
StructBlockValidationError(value) ==
    {name \in {"title"} : value.title = ""}
        \cup {name \in {"items"} :
                 \/ value.items = <<>>
                 \/ \E i \in 1 .. Len(value.items) :
                        ~child_valid(value.items[i])}

\* DropdownMenuBlock.clean: any failure of the parent validation is turned
\* into EmptyDropdown; so is a cleaned value without items; otherwise the
\* cleaned value is returned.
DropdownMenuBlock_clean(value) ==
    IF StructBlockValidationError(value) # {}
    THEN [error |-> EmptyDropdown]
    ELSE IF value.items = <<>>
         THEN [error |-> EmptyDropdown]
         ELSE [error |-> "none", cleaned |-> value]

\* The children submitted in a dropdown: valid links, a page link without a
\* page, and external links without a url or without a title.
SubmittedItems ==
    {PageLinkBlock(1, "User Guide", ""), PageLinkBlock(2, "", "faq"),
     PageLinkBlock(0, "", ""),
     ExternalLinkBlock("https://docs.example.com", "Documentation", ""),
     ExternalLinkBlock("", "Documentation", ""),
     ExternalLinkBlock("https://docs.example.com", "", "")}

\* The dropdown values submitted: with and without a title, and at most
\* MaxDropdownItems children.
SubmittedDropdowns ==
    {DropdownMenuBlock(title, items) :
        title \in {"", "Resources", "Empty Dropdown"},
        items \in UNION {[1 .. n -> SubmittedItems] :
                            n \in 0 .. MaxDropdownItems}}

\* block.clean(value).
Clean(value) ==
    /\ returned = NoReturn
    /\ returned' = [op |-> "clean", value |-> value,
                    result |-> DropdownMenuBlock_clean(value)]
    /\ UNCHANGED <<settings, Locale, pages, last, is_default_site, page_tree, others>>

NextClean ==
    \/ \E value \in SubmittedDropdowns : Clean(value)
    \/ Discard

SpecClean == InitNavigation /\ [][NextClean]_vars

(***************************************************************************)
(* Overlapping navigation_menu calls.  A call first reads the settings row *)
(* of the site, which creates it when it is missing, and later prefetches  *)
(* the pages and processes the items; calls of other requests run in       *)
(* between.                                                                *)
(***************************************************************************)
\* Lines 25-33: the call of request r reads the locales and the settings.
BeginMenu(r, default_locale) ==
    /\ passes[r] = Idle
    /\ get_active[r] \in Locale
    /\ default_locale \in Locale
    /\ navigation_menu_setting' = for_request(navigation_menu_setting)
    /\ passes' = [passes EXCEPT ![r] =
                     [pc |-> "begun",
                      current_locale |-> get_active[r],
                      default_locale |-> default_locale,
                      menu_settings |-> for_request(navigation_menu_setting)]]
    /\ UNCHANGED <<settings, Locale, pages, last, is_default_site, page_tree, returned, sync_run>>

\* Lines 35-67: the call of request r prefetches the pages, processes the
\* items it read and returns the context of the template.
FinishMenu(r) ==
    /\ passes[r].pc = "begun"
    /\ passes' = [passes EXCEPT ![r] =
                     [pc |-> "done",
                      current_locale |-> passes[r].current_locale,
                      default_locale |-> passes[r].default_locale,
                      value |-> navigation_menu(passes[r].menu_settings,
                                                passes[r].current_locale,
                                                passes[r].default_locale,
                                                NoPage)]]
    /\ UNCHANGED <<settings, Locale, pages, last, is_default_site, page_tree, returned, navigation_menu_setting, sync_run>>

\* The template has rendered the context.
Rendered(r) ==
    /\ passes[r].pc = "done"
    /\ passes' = [passes EXCEPT ![r] = Idle]
    /\ UNCHANGED <<settings, Locale, pages, last, is_default_site, page_tree, returned, navigation_menu_setting, sync_run>>

NextOverlap ==
    \/ \E locale \in Codes, live \in BOOLEAN : add_child(locale, live)
    \/ \E id \in PageIds, locale \in Codes : copy_for_translation(id, locale)
    \/ \E id \in PageIds : publish(id)
    \/ \E id \in PageIds : unpublish(id)
    \/ \E id \in PageIds : delete(id)
    \/ \E raw \in RawMenus : SaveMenu(raw)
    \/ DeleteMenu
    \/ \E r \in Requests, default_locale \in DefaultLocales :
           BeginMenu(r, default_locale)
    \/ \E r \in Requests : FinishMenu(r)
    \/ \E r \in Requests : Rendered(r)

SpecOverlap == InitNavigation /\ [][NextOverlap]_vars

(***************************************************************************)
(* Properties.  A step whose last' names an operation is a step of that    *)
(* operation: unprimed variables are the state it ran in, primed ones the  *)
(* state it left.                                                          *)
(***************************************************************************)
\* Number of content entities (pages of any class) whose locale is `code`.
EntityCount(code) ==
    pages[<<code, "wagtailcore.Page">>] + pages[<<code, "home.HomePage">>]
        + pages[<<code, "content.ContentPage">>]

\* The locales of the table that are outside the list and that at least one
\* content entity references.
InUseOutside(available_languages) ==
    {l \in Locale : l \notin Range(available_languages) /\ EntityCount(l) > 0}

\* The step is an administrator's validated save of persisted settings.
IsUpdate == last'.op = "validated_save" /\ last'.pk

\* The outcome names a locale in use outside the list, with its entity count.
NamesLocaleInUse ==
    /\ last'.error = "LocaleInUse"
    /\ last'.code \in InUseOutside(last'.available_languages)
    /\ last'.count = EntityCount(last'.code)
    /\ last'.name = display_name(last'.code)

\* C1 (as stated): for persisted settings, whenever some locale of the table
\* is outside availableLanguages and referenced by content, Validate fails
\* with LocaleInUse naming such a locale and carrying its usage count.
C1_AsStated ==
    [][(IsUpdate /\ InUseOutside(last'.available_languages) # {})
          => NamesLocaleInUse]_vars

\* C1 (amended): the same, for persisted settings whose availableLanguages
\* is non-empty and contains defaultLanguage (the two earlier checks of
\* Validate take precedence over the locale check).
C1_UpdateGuard ==
    [][(/\ IsUpdate
        /\ last'.available_languages # <<>>
        /\ last'.default_language \in Range(last'.available_languages)
        /\ InUseOutside(last'.available_languages) # {})
          => NamesLocaleInUse]_vars

\* C1 witness: an update was refused with LocaleInUse for a locale that two
\* content entities reference.
C1_Witness ==
    /\ last.op = "validated_save" /\ last.pk
    /\ last.error = "LocaleInUse"
    /\ last.count = 2
    /\ EntityCount(last.code) = 2

\* The step is a sync_locales run with --remove-unused that reached the
\* create and removal steps.
IsRemovalRun ==
    last'.op = "sync_locales" /\ last'.remove_unused /\ last'.outcome = "synced"

\* C2 (as stated): a run with removeUnused never deletes a locale that content
\* references; such a locale outside the desired set stays in the table and is
\* reported blocked with its usage count, the number of content entities
\* that reference it.
C2_AsStated ==
    [][IsRemovalRun =>
         \A l \in Locale :
            (l \notin desired_languages /\ EntityCount(l) > 0) =>
               /\ l \in Locale'
               /\ l \in DOMAIN last'.blocked
               /\ last'.blocked[l].total_count = EntityCount(l)]_vars

\* C2 (amended): such a locale stays in the table and is reported blocked;
\* the total reported is the sum of the per-model counts, in which a page
\* counts once as wagtailcore.Page and once more as its own class when that
\* is a subclass (HomePage, ContentPage).
C2_BlockedNotDeleted ==
    [][IsRemovalRun =>
         \A l \in Locale :
            (l \notin desired_languages /\ EntityCount(l) > 0) =>
               /\ l \in Locale'
               /\ l \notin last'.removed
               /\ l \in DOMAIN last'.blocked
               /\ last'.blocked[l].total_count =
                     EntityCount(l) + pages[<<l, "home.HomePage">>]
                                    + pages[<<l, "content.ContentPage">>]]_vars

\* C2 witness: a removal run left in the table a locale that one content
\* entity references, and reported it blocked with a total of 2.
C2_Witness ==
    /\ last.op = "sync_locales" /\ last.remove_unused
    /\ \E l \in DOMAIN last.blocked :
          /\ l \in Locale
          /\ EntityCount(l) = 1
          /\ last.blocked[l].total_count = 2

\* The persisted row lists its default language.
DefaultListed(row) ==
    row.default_language \in Range(row.available_languages)

\* C3 (as stated): in every reachable state every persisted LocaleSettings
\* has defaultLanguage in availableLanguages.
C3_AsStated ==
    \A s \in DOMAIN settings : settings[s].pk => DefaultListed(settings[s])

\* C3 (amended): every row written by a save that Validate accepted has
\* defaultLanguage in availableLanguages; save() itself does not validate.
C3_ValidatedRowsListDefault ==
    [][(last'.op = "validated_save" /\ last'.error = "none") =>
          /\ settings'[last'.site].pk
          /\ DefaultListed(settings'[last'.site])]_vars

\* C3 witness: Validate accepted an update, and the row written lists its
\* default language "fi".
C3_Witness ==
    /\ last.op = "validated_save" /\ last.pk /\ last.error = "none"
    /\ DefaultListed(settings[last.site])
    /\ settings[last.site].default_language = "fi"

\* C4: when Validate fails, the attempted save changes neither the settings
\* rows nor the Locale table (nor the content).
C4_RejectedSaveChangesNothing ==
    [][(last'.op = "validated_save" /\ last'.error # "none") =>
          /\ settings' = settings
          /\ Locale' = Locale
          /\ pages' = pages]_vars

\* C4 witness: a save refused with LocaleInUse listed a language that has no
\* Locale row, and the row was not created.
C4_Witness ==
    /\ last.op = "validated_save"
    /\ last.error = "LocaleInUse"
    /\ \E c \in Range(last.available_languages) : c \notin Locale
    /\ settings[last.site].available_languages # last.available_languages

\* C5: after every successful save the Locale table is the table before the
\* save united with availableLanguages: nothing is deleted.
C5_SaveCreatesOnly ==
    [][(last'.op \in {"save", "validated_save"} /\ last'.error = "none") =>
          /\ settings'[last'.site].available_languages
                = last'.available_languages
          /\ Locale' = Locale \cup Range(last'.available_languages)
          /\ last'.created = Range(last'.available_languages) \ Locale]_vars

\* C5 witness: a save of persisted settings created a locale while a locale
\* that is no longer listed stayed in the table.
C5_Witness ==
    /\ last.op \in {"save", "validated_save"} /\ last.pk
    /\ last.error = "none"
    /\ last.created # {}
    /\ Locale \ Range(settings[last.site].available_languages) # {}

\* C6: for settings not yet persisted, Validate succeeds whenever
\* availableLanguages is non-empty and contains defaultLanguage.
C6_NoLocaleCheckOnCreate ==
    (/\ last.op = "validated_save" /\ ~last.pk
     /\ last.available_languages # <<>>
     /\ last.default_language \in Range(last.available_languages))
        => last.error = "none"

\* C6 witness: settings were created by a validated save while a locale
\* outside their list had content.
C6_Witness ==
    /\ last.op = "validated_save" /\ ~last.pk
    /\ last.error = "none"
    /\ InUseOutside(last.available_languages) # {}

\* C7: Validate of settings with an empty availableLanguages fails with
\* EmptyLanguageSet, persisted or not, whatever defaultLanguage is.
C7_EmptyLanguageSet ==
    (last.op = "validated_save" /\ last.available_languages = <<>>)
        => last.error = "EmptyLanguageSet"

\* C7 witness: persisted settings were submitted with an empty list while
\* a locale had content.
C7_Witness ==
    /\ last.op = "validated_save" /\ last.pk
    /\ last.available_languages = <<>>
    /\ last.error = "EmptyLanguageSet"
    /\ InUseOutside(<<>>) # {}

\* C8: Validate of settings whose non-empty availableLanguages lacks
\* defaultLanguage fails with DefaultNotInSet; settings whose non-empty
\* availableLanguages contains defaultLanguage and that leave no locale in
\* use outside the list pass.
C8_DefaultNotInSet ==
    [][last'.op = "validated_save" =>
         LET a == last'.available_languages
             d == last'.default_language
         IN  /\ (a # <<>> /\ d \notin Range(a))
                   => last'.error = "DefaultNotInSet"
             /\ (a # <<>> /\ d \in Range(a) /\ InUseOutside(a) = {})
                   => last'.error = "none"]_vars

\* C8 witness: persisted settings were refused with DefaultNotInSet while
\* a locale outside the list had content.
C8_Witness ==
    /\ last.op = "validated_save" /\ last.pk
    /\ last.available_languages # <<>>
    /\ last.error = "DefaultNotInSet"
    /\ InUseOutside(last.available_languages) # {}

\* C9: the create step creates exactly the desired codes missing from the
\* table, and a second run with the same settings creates nothing and
\* leaves the table unchanged.
C9_CreateOnlyIdempotent ==
    [][(last'.op = "sync_locales" /\ ~last'.remove_unused
          /\ last'.outcome = "synced") =>
          /\ last'.created = desired_languages \ Locale
          /\ Locale' = Locale \cup desired_languages
          /\ MissingLocales(desired_languages, Locale') = {}
          /\ (last.op = "sync_locales" /\ last.outcome = "synced") =>
                (last'.created = {} /\ Locale' = Locale)]_vars

\* C9 witness: a run without --remove-unused created two missing locales.
C9_Witness ==
    /\ last.op = "sync_locales" /\ ~last.remove_unused
    /\ Cardinality(last.created) = 2
    /\ last.created \subseteq Locale

SubclassRows(code) ==
    pages[<<code, "home.HomePage">>] + pages[<<code, "content.ContentPage">>]

\* The latest operation is a sync run that reached the removal step.
RemovalRunDone ==
    /\ last.op = "sync_locales"
    /\ last.remove_unused
    /\ last.outcome = "synced"

StaticDefaults == <<DEFAULT_LANGUAGE_CODE, DEFAULT_LANGUAGES>>

\* The site the claim speaks of: the default site, else the first site.
SiteLookedUp ==
    IF is_default_site # ""
    THEN is_default_site
    ELSE CHOOSE s \in DOMAIN settings :
             \A t \in DOMAIN settings : SitePk(s) <= SitePk(t)

\* C12: every call of the lookup returns a value; it is the static defaults
\* when a storage access failed, when there is no site, or when the selected
\* site has no LocaleSettings row; otherwise it is that site's default
\* language with the list of (code, name) pairs of its available languages.
C12_LookupTotal ==
    returned.op = "get_language_settings" =>
        IF \/ returned.failed
           \/ DOMAIN settings = {}
           \/ ~settings[SiteLookedUp].pk
        THEN returned.value = StaticDefaults
        ELSE LET row == settings[SiteLookedUp]
             IN  /\ returned.value[1] = row.default_language
                 /\ Len(returned.value[2]) = Len(row.available_languages)
                 /\ \A i \in 1 .. Len(row.available_languages) :
                        returned.value[2][i] =
                            <<row.available_languages[i],
                              display_name(row.available_languages[i])>>

\* The lookup returned the settings of the default site s2 while the first
\* site s1 has settings with another default language.
C12_Witness ==
    /\ returned.op = "get_language_settings"
    /\ ~returned.failed
    /\ DOMAIN settings = {"s1", "s2"}
    /\ is_default_site = "s2"
    /\ settings["s1"].pk /\ settings["s1"].default_language = "en"
    /\ settings["s2"].pk
    /\ returned.value = <<"fi", << <<"en", "English">>,
                                   <<"fi", "Finnish / Suomi">> >> >>

(***************************************************************************)
(* Navigation claims.  A page operation clears `returned`, so when         *)
(* `returned` holds the value of a process_menu_item call, page_tree is    *)
(* the content that call read.                                             *)
(***************************************************************************)
\* The latest call resolved a page link.
PageLinkCall ==
    /\ returned.op = "process_menu_item"
    /\ returned.item.type = "page_link"

\* The page the link stores (NoPage when the row is gone).
TargetPage == page_tree[returned.item.page]

\* The translations of the link's target that exist in the locale.
TranslationsIn(locale) ==
    {page_tree[id] : id \in
        {id \in ExistingPageIds :
            /\ page_tree[id].translation_key = TargetPage.translation_key
            /\ page_tree[id].locale = locale}}

\* The link's target exists and is published.
TargetPublished == TargetPage # NoPage /\ TargetPage.live

\* C13 as stated: for a page link with a published target, an unpublished
\* translation in the locale being tried (the active locale; the default
\* locale when the active locale has no translation) makes the link resolve
\* to none.
C13_AsStated ==
    PageLinkCall /\ TargetPublished =>
        /\ (\E t \in TranslationsIn(returned.current_locale) : ~t.live)
               => returned.value = None
        /\ (/\ TranslationsIn(returned.current_locale) = {}
            /\ \E t \in TranslationsIn(returned.default_locale) : ~t.live)
               => returned.value = None

\* C14: a page link whose target is absent or not live resolves to none,
\* whatever the active locale, the default locale and the current page.
C14_AbsentOrUnpublishedTarget ==
    PageLinkCall /\ ~TargetPublished => returned.value = None

\* The target exists, is not live and has a live translation in the active
\* locale: the link resolved to none.
C14_Witness ==
    /\ PageLinkCall
    /\ TargetPage # NoPage
    /\ ~TargetPage.live
    /\ TargetPage.locale # returned.current_locale
    /\ \E t \in TranslationsIn(returned.current_locale) : t.live
    /\ returned.value = None

\* The call returned a resolved page link.
ResolvedPageLink ==
    /\ returned.op = "process_menu_item"
    /\ returned.value.type = "page_link"

DropdownCall ==
    /\ returned.op = "process_menu_item"
    /\ returned.item.type = "dropdown"

\* What the i-th child of the dropdown resolves to on its own.
ChildResolution(i) ==
    process_menu_item(returned.item.items[i], returned.current_locale,
                      returned.default_locale, returned.current_page, <<>>)

\* The positions of the children that resolve.
ResolvingChildren ==
    {i \in 1 .. Len(returned.item.items) : ChildResolution(i) # None}

\* C16: a dropdown resolves to none exactly when none of its children
\* resolves (an empty dropdown included); otherwise to a dropdown whose items
\* are the resolutions of the resolving children, in the stored order.
C16_DropdownKeepsResolvedChildren ==
    DropdownCall =>
        /\ returned.value = None <=> ResolvingChildren = {}
        /\ returned.value # None =>
               /\ returned.value.type = "dropdown"
               /\ Len(returned.value.items) = Cardinality(ResolvingChildren)
               /\ \A i \in ResolvingChildren :
                      returned.value.items[
                          Cardinality({j \in ResolvingChildren : j <= i})]
                          = ChildResolution(i)

\* Of two children only the second resolves: the dropdown has that one item.
C16_Witness ==
    /\ DropdownCall
    /\ Len(returned.item.items) = 2
    /\ ResolvingChildren = {2}
    /\ returned.value.type = "dropdown"
    /\ returned.value.items = <<ChildResolution(2)>>

\* The call returned a resolved dropdown.
ResolvedDropdown ==
    /\ returned.op = "process_menu_item"
    /\ returned.value.type = "dropdown"

\* C17: a resolved dropdown is open exactly when one of its resolved
\* children is the current page.
C17_OpenIffCurrentChild ==
    ResolvedDropdown =>
        (returned.value.is_open <=>
            \E i \in 1 .. Len(returned.value.items) :
                returned.value.items[i].is_current = "True")

\* An open dropdown with two resolved children, the second of which is the
\* current page and the first is not.
C17_Witness ==
    /\ ResolvedDropdown
    /\ returned.value.is_open
    /\ Len(returned.value.items) = 2
    /\ returned.value.items[1].is_current # "True"
    /\ returned.value.items[2].is_current = "True"

\* C18: a resolved page link is current exactly when a current page is given
\* and it is the resolved page (same id); with no current page it is not.
C18_CurrentIffResolvedPage ==
    ResolvedPageLink =>
        /\ returned.value.is_current = "True" <=>
               /\ returned.current_page # NoPage
               /\ returned.current_page.id = returned.value.page.id
        /\ returned.current_page = NoPage => returned.value.is_current # "True"

\* The current page is the stored target, the link resolved to a translation
\* of it: the link is not current.
C18_Witness ==
    /\ ResolvedPageLink
    /\ returned.current_page # NoPage
    /\ returned.current_page.id = returned.item.page
    /\ returned.value.page.id # returned.item.page
    /\ returned.value.is_current = "False"

\* C19: the title of a resolved page link is its custom title when that is
\* not empty, otherwise the title of the resolved page.
C19_TitleOfResolvedPage ==
    ResolvedPageLink =>
        returned.value.title =
            IF returned.item.custom_title # ""
            THEN returned.item.custom_title
            ELSE returned.value.page.title

\* No custom title, the link resolved to a translation: the title is the
\* translation's, not the stored target's.
C19_Witness ==
    /\ ResolvedPageLink
    /\ returned.item.custom_title = ""
    /\ returned.value.page.id # returned.item.page
    /\ returned.value.title = returned.value.page.title
    /\ returned.value.title # TargetPage.title

\* C20: the url of a resolved page link is the url of the resolved page,
\* followed by "#" and the anchor when the anchor is not empty.
C20_UrlOfResolvedPage ==
    ResolvedPageLink =>
        returned.value.url =
            IF returned.item.anchor # ""
            THEN returned.value.page.url \o "#" \o returned.item.anchor
            ELSE returned.value.page.url

\* The link to page 1 with anchor "top" resolved to its translation, page 2,
\* found in the default locale at the second step.
C20_Witness ==
    /\ ResolvedPageLink
    /\ returned.item.page = 1
    /\ returned.item.anchor = "top"
    /\ returned.value.page.id = 2
    /\ returned.current_locale # returned.default_locale
    /\ returned.value.page.locale = returned.default_locale
    /\ returned.value.url = "/page-2/#top"

\* The latest call resolved an external link.
ExternalLinkCall ==
    /\ returned.op = "process_menu_item"
    /\ returned.item.type = "external_link"

\* C21: an external link always resolves: to its url, followed by "#" and
\* the anchor when the anchor is not empty, its stored title and is_current
\* false; every locale and every current page give that same result.
C21_ExternalLinkAlwaysResolves ==
    ExternalLinkCall =>
        /\ returned.value # None
        /\ returned.value.type = "external_link"
        /\ returned.value.url =
               IF returned.item.anchor # ""
               THEN returned.item.url \o "#" \o returned.item.anchor
               ELSE returned.item.url
        /\ returned.value.title = returned.item.title
        /\ returned.value.is_current = "False"
        /\ \A current_locale \in Codes, default_locale \in Codes,
              current_page \in {page_tree[id] : id \in PageIds} :
               process_menu_item(returned.item, current_locale, default_locale,
                                 current_page, <<>>) = returned.value

\* An external link with anchor "section", resolved in a locale other than
\* the default one while a current page is given.
C21_Witness ==
    /\ ExternalLinkCall
    /\ returned.current_locale # returned.default_locale
    /\ returned.current_page # NoPage
    /\ returned.item.anchor = "section"
    /\ returned.value.url = "https://example.com#section"
    /\ returned.value.title = "Example Site"
    /\ returned.value.is_current = "False"

(***************************************************************************)
(* navigation_menu claims.  The stored menu and the pages are written only *)
(* while `returned` is empty, so when `returned` holds the context of a    *)
(* navigation_menu call they are what that call read.                      *)
(***************************************************************************)
\* The latest call rendered the menu.
MenuCall == returned.op = "navigation_menu"

\* The stored top-level items.
StoredItems == navigation_menu_setting.menu_items

\* What the i-th stored item resolves to on its own, without a cache.
ItemResolution(i) ==
    process_menu_item(StoredItems[i], returned.current_locale,
                      returned.default_locale, returned.current_page, <<>>)

\* The positions of the stored items that resolve.
ResolvingItems == {i \in 1 .. Len(StoredItems) : ItemResolution(i) # None}

\* C22: the resolved menu holds exactly the resolutions of the stored
\* top-level items that resolve, in the stored order, each once; with no
\* settings row or an empty menu it is the empty sequence.
C22_MenuKeepsResolvedItemsInOrder ==
    MenuCall =>
        /\ Len(returned.value.menu_items) = Cardinality(ResolvingItems)
        /\ \A i \in ResolvingItems :
               returned.value.menu_items[
                   Cardinality({j \in ResolvingItems : j <= i})]
                   = ItemResolution(i)
        /\ (~returned.had_row \/ StoredItems = <<>>) =>
               returned.value.menu_items = <<>>

\* Of two stored items the first does not resolve and the second does: the
\* resolved menu is that one item.
C22_Witness ==
    /\ MenuCall
    /\ Len(StoredItems) = 2
    /\ ResolvingItems = {2}
    /\ returned.value.menu_items = <<ItemResolution(2)>>

\* C23: a stored dropdown holds no dropdown, and no dropdown of a resolved
\* menu holds a dropdown.
C23_TwoLevels ==
    /\ \A i \in 1 .. Len(StoredItems) :
           StoredItems[i].type = "dropdown" =>
               \A j \in 1 .. Len(StoredItems[i].items) :
                   StoredItems[i].items[j].type # "dropdown"
    /\ MenuCall =>
           \A i \in 1 .. Len(returned.value.menu_items) :
               returned.value.menu_items[i].type = "dropdown" =>
                   \A j \in 1 .. Len(returned.value.menu_items[i].items) :
                       returned.value.menu_items[i].items[j].type # "dropdown"

\* The raw dropdown "Nested" was submitted with a dropdown and a page link
\* inside: it is stored and resolved with the page link alone.
C23_Witness ==
    /\ MenuCall
    /\ \E i \in 1 .. Len(StoredItems) :
           /\ StoredItems[i].type = "dropdown"
           /\ StoredItems[i].title = "Nested"
           /\ Len(StoredItems[i].items) = 1
    /\ \E i \in 1 .. Len(returned.value.menu_items) :
           /\ returned.value.menu_items[i].type = "dropdown"
           /\ returned.value.menu_items[i].title = "Nested"
           /\ Len(returned.value.menu_items[i].items) = 1
           /\ returned.value.menu_items[i].items[1].type = "page_link"

\* C25: the menu resolved with the prefetched pages is the menu obtained by
\* resolving every stored item without a cache.
C25_CacheChangesNothing ==
    MenuCall /\ StoredItems # <<>> =>
        returned.value.menu_items =
            processed_items(StoredItems, returned.current_locale,
                            returned.default_locale, returned.current_page,
                            <<>>)

\* Two pages were prefetched, page 2 an unpublished translation of page 1 in
\* the active locale, and the menu resolved to at least one item.
C25_Witness ==
    /\ MenuCall
    /\ DOMAIN pages_cache(StoredItems) = {1, 2}
    /\ page_tree[2].translation_key = page_tree[1].translation_key
    /\ page_tree[2].locale = returned.current_locale
    /\ page_tree[1].live /\ ~page_tree[2].live
    /\ returned.value.menu_items # <<>>

\* The latest call validated a dropdown value.
CleanCall == returned.op = "clean"

\* C24: validation fails with EmptyDropdown when the dropdown has no items,
\* and returns the cleaned value when the dropdown has at least one valid
\* item.
C24_AsStated ==
    CleanCall =>
        /\ returned.value.items = <<>> =>
               returned.result = [error |-> EmptyDropdown]
        /\ (\E i \in 1 .. Len(returned.value.items) :
                child_valid(returned.value.items[i])) =>
               returned.result = [error |-> "none", cleaned |-> returned.value]

\* A step of a navigation_menu call of some request.
PassStep == \E r \in Requests : passes'[r] # passes[r]

\* C26: a step of a resolution pass leaves the stored menu, the
\* LocaleSettings, the Locale table and the pages unchanged.
C26_AsStated ==
    [][PassStep =>
         UNCHANGED <<navigation_menu_setting, settings, Locale, pages,
                     page_tree>>]_vars

\* C26 (amended): a step of a resolution pass leaves the LocaleSettings, the
\* Locale table, the pages and the stored menu items unchanged, and its only
\* write is the settings row it creates, with an empty menu, for a site that
\* has none; however the passes of two requests overlap, each returns what
\* a pass running alone returns for the stored menu and the pages.
C26_PassCreatesOnlyMissingRow ==
    /\ [](\A r \in Requests :
             passes[r].pc = "done" =>
                 passes[r].value =
                     navigation_menu(navigation_menu_setting,
                                     passes[r].current_locale,
                                     passes[r].default_locale, NoPage))
    /\ [][PassStep =>
            /\ UNCHANGED <<settings, Locale, pages, page_tree>>
            /\ navigation_menu_setting'.menu_items
                   = navigation_menu_setting.menu_items
            /\ navigation_menu_setting'.pk]_vars

\* The pass of r1 has returned a menu of two items while the pass of r2 is
\* between its read of the settings and its return.
C26_Witness ==
    /\ passes["r1"].pc = "done"
    /\ passes["r2"].pc = "begun"
    /\ Len(passes["r1"].value.menu_items) = 2

\* No page is in a locale that is missing from the Locale table.
NoOrphanContent ==
    \A code \in Codes : page_count(code) > 0 => code \in Locale

\* C27: while content is created during sync_locales --remove-unused, the
\* usage read, the decision and the delete are isolated: the locale the
\* command is about to delete has no content, and no page is ever in a
\* locale missing from the table.
C27_AsStated ==
    /\ sync_run.pc = "delete" => page_count(sync_run.deleting) = 0
    /\ NoOrphanContent

\* The latest call listed the available languages of a site.
LanguagesCall == returned.op = "get_available_languages_list"

\* The stored list of the site the latest call read.
StoredLanguages == settings[returned.site].available_languages

\* The positions of the stored codes that are not empty.
NonEmptyCodes == {i \in 1 .. Len(StoredLanguages) : StoredLanguages[i] # ""}

\* C28: the list has one (code, name) pair per stored code, in stored
\* order; the name is the name in LANGUAGE_CHOICES, or the code itself when
\* it is not there; an empty stored list gives an empty list.
C28_AsStated ==
    LanguagesCall =>
        /\ Len(returned.value) = Len(StoredLanguages)
        /\ \A i \in 1 .. Len(StoredLanguages) :
               returned.value[i] =
                   <<StoredLanguages[i], display_name(StoredLanguages[i])>>

\* C28 (amended): the list has one (code, name) pair per stored code that
\* is not the empty string, in stored order, and empty codes are left out;
\* the name is the name in LANGUAGE_CHOICES, or the code itself when it is
\* not there; an empty stored list gives an empty list.
C28_OnePairPerNonEmptyCode ==
    LanguagesCall =>
        /\ Len(returned.value) = Cardinality(NonEmptyCodes)
        /\ \A i \in NonEmptyCodes :
               LET pair == returned.value[
                               Cardinality({j \in NonEmptyCodes : j <= i})]
               IN  /\ pair[1] = StoredLanguages[i]
                   /\ pair[2] = CASE pair[1] = "en" -> "English"
                                  [] pair[1] = "fi" -> "Finnish / Suomi"
                                  [] OTHER -> pair[1]
        /\ StoredLanguages = <<>> => returned.value = <<>>

\* The stored list holds a known code, an empty code and an unknown code:
\* two pairs come back, the unknown code under its own name.
C28_Witness ==
    /\ LanguagesCall
    /\ StoredLanguages = <<"fi", "", "xx">>
    /\ returned.value = << <<"fi", "Finnish / Suomi">>, <<"xx", "xx">> >>

\* The step is a sync_locales run.
IsSyncRun == last'.op = "sync_locales"

\* The sites whose settings row lists the code.
ListedBy(code) ==
    {s \in DOMAIN settings :
        settings[s].pk /\ code \in Range(settings[s].available_languages)}

\* C29: a locale that the settings of at least one site list is not deleted
\* by a sync_locales run, with --remove-unused or without, whatever the other
\* sites list; with no settings row, or with rows that list nothing, the run
\* leaves the Locale table as it is.
C29_UnionOfAllSites ==
    [][IsSyncRun =>
         /\ \A code \in Locale : ListedBy(code) # {} => code \in Locale'
         /\ (\A s \in DOMAIN settings :
                 ~settings[s].pk \/ settings[s].available_languages = <<>>) =>
                Locale' = Locale]_vars

\* A run with --remove-unused has removed a locale and has kept "fi", which
\* the row of s2 lists and the row of s1 does not.
C29_Witness ==
    /\ last.op = "sync_locales"
    /\ last.remove_unused
    /\ last.removed # {}
    /\ DOMAIN settings = {"s1", "s2"}
    /\ ListedBy("fi") = {"s2"}
    /\ settings["s1"].pk
    /\ "fi" \in Locale
    /\ page_count("fi") = 0

\* The step validates persisted settings with the default language and the
\* list they already have.
IsUnchangedUpdate ==
    /\ IsUpdate
    /\ last'.available_languages = settings[last'.site].available_languages
    /\ last'.default_language = settings[last'.site].default_language

\* C30 (as stated): validation of persisted settings whose list is unchanged
\* fails with LocaleInUse whenever a locale of the table outside the list has
\* content, whether the settings ever listed that locale or not.
C30_AsStated ==
    [][(IsUnchangedUpdate /\ InUseOutside(last'.available_languages) # {})
          => /\ last'.error = "LocaleInUse"
             /\ last'.code \in InUseOutside(last'.available_languages)]_vars

\* C30 (amended): the same for persisted settings whose list is non-empty
\* and contains the default language: the unchanged settings are refused
\* with LocaleInUse, and stay as they are, as long as a locale of the table
\* outside the list has content, and they pass once no such locale is left.
C30_WholeTableOnUpdate ==
    [][(/\ IsUnchangedUpdate
        /\ last'.available_languages # <<>>
        /\ last'.default_language \in Range(last'.available_languages))
          => IF InUseOutside(last'.available_languages) # {}
             THEN /\ last'.error = "LocaleInUse"
                  /\ last'.code \in InUseOutside(last'.available_languages)
                  /\ UNCHANGED <<settings, Locale>>
             ELSE last'.error = "none"]_vars

\* Settings that list en alone were validated again, unchanged, and refused
\* because of the pages in fi.
C30_Witness ==
    /\ last.op = "validated_save"
    /\ last.pk
    /\ last.error = "LocaleInUse"
    /\ last.code = "fi"
    /\ last.available_languages = <<"en">>
    /\ settings[last.site] = Row("en", <<"en">>)
    /\ EntityCount("fi") > 0

====
